---- MODULE Spec2Model ----
(***************************************************************************)
(* Lightspark native argument marshalling (src/src/scripting/argconv.h):   *)
(* the per-type coercion pair ArgumentConversionAtom<T>::toConcrete /       *)
(* toAbstract and the positional cursor ArgUnpackAtom that applies it.      *)
(*                                                                         *)
(* Values.  A dynamic value (asAtom) and a native value are both records   *)
(* [tag, obj, num].  Dynamic tags: "invalid", "undefined", "null", "int",   *)
(* "bool", "obj".  Native tags: "int32", "bool" for scalars, "ref" for a    *)
(* non-empty handle (Ref<T> / NullableRef<T>), "nullref" for the empty      *)
(* NullableRef; an asAtom native variable holds a dynamic value.            *)
(***************************************************************************)
EXTENDS Integers, Sequences, FiniteSets, TLC

\* Bounds of the model.
MaxArgs == 2      \* longest argument array explored
MaxSlots == 2     \* longest chain of operator() applications explored
MaxOps == 2       \* coercions applied in a row to one native variable
ScenarioLen == 4  \* longest argument array of the three-slot call

VARIABLES
    args,         \* the call's argument array (ArgUnpackAtom::args base), fixed
    cursor,       \* how far ArgUnpackAtom::args has been advanced (args++)
    argslen,      \* ArgUnpackAtom::argslen, arguments remaining
    moreAllowed,  \* ArgUnpackAtom::moreAllowed
    ndebug,       \* the build defines NDEBUG: no moreAllowed, no destructor
    limit,        \* number of slots the call site's chain may apply
    owners,       \* live owners of one object followed through a round trip
    slots,        \* native variables handed to operator() so far, in order
    err,          \* error thrown out of the unpack, "none" if none
    pc,           \* "unpacking", "thrown" (non-local exit), "destroyed"
    diag,         \* number of LOG_NOT_IMPLEMENTED diagnostics emitted
    rc,           \* reference count of every runtime object
    conv          \* one native variable under direct coercion (setter/getter)

vars == <<args, cursor, argslen, moreAllowed, ndebug, limit, owners, slots,
          err, pc, diag, rc, conv>>

----------------------------------------------------------------------------
\* Runtime classes and objects (class registry and object model).

Classes == {"ASObject", "DisplayObject", "Sprite", "CSMSettings",
            "Null", "Undefined", "Integer", "Boolean"}

\* Direct superclass; Null and Undefined derive directly from ASObject.
Parent(c) ==
    CASE c = "Sprite" -> "DisplayObject"
      [] OTHER -> "ASObject"

RECURSIVE IsSubclass(_, _)
IsSubclass(c, T) ==
    IF c = T THEN TRUE
    ELSE IF c = "ASObject" THEN FALSE
    ELSE IsSubclass(Parent(c), T)

Objects == {"sprite1", "disp1", "csm1", "nullObj", "undefObj", "intObj", "boolObj"}

ObjClass(o) ==
    CASE o = "sprite1" -> "Sprite"
      [] o = "disp1" -> "DisplayObject"
      [] o = "csm1" -> "CSMSettings"
      [] o = "nullObj" -> "Null"
      [] o = "undefObj" -> "Undefined"
      [] o = "intObj" -> "Integer"
      [] o = "boolObj" -> "Boolean"

----------------------------------------------------------------------------
\* Dynamic values.

Val(t, o, n) == [tag |-> t, obj |-> o, num |-> n]

invalidAtom == Val("invalid", "none", 0)
undefinedAtom == Val("undefined", "none", 0)
nullAtom == Val("null", "none", 0)
IntAtom(n) == Val("int", "none", n)
BoolAtom(b) == Val("bool", "none", IF b THEN 1 ELSE 0)
ObjAtom(o) == Val("obj", o, 0)
StrAtom(s) == Val("str", s, 0)         \* a string value; obj carries the text

isNull(a) == a.tag = "null"
isUndefined(a) == a.tag = "undefined"
isInvalid(a) == a.tag = "invalid"
isValid(a) == a.tag # "invalid"
isObject(a) == a.tag = "obj"

\* asAtomHandler::toObject: the object itself, the Null / Undefined singleton,
\* or the boxed primitive.
toObject(a) ==
    CASE a.tag = "obj" -> a.obj
      [] a.tag = "null" -> "nullObj"
      [] a.tag = "undefined" -> "undefObj"
      [] a.tag = "int" -> "intObj"
      [] a.tag = "bool" -> "boolObj"

\* Runtime class of a dynamic value.
ClassOf(a) == ObjClass(toObject(a))

\* asAtomHandler::is<T>: the value's runtime class is T or a subtype of T.
is(T, a) == isValid(a) /\ IsSubclass(ClassOf(a), T)

\* asAtomHandler::checkArgumentConversion: the new value is of the kind the
\* variable already holds.
checkArgumentConversion(v, obj) == ClassOf(v) = ClassOf(obj)

\* asAtomHandler::toInt on the values of the model.
toInt(a) ==
    CASE a.tag = "int" -> a.num
      [] a.tag = "bool" -> a.num
      [] a.tag = "str" /\ a.obj = "42" -> 42
      [] OTHER -> 0

\* asAtomHandler::Boolean_concrete on the values of the model.
Boolean_concrete(a) ==
    CASE a.tag = "int" -> a.num # 0
      [] a.tag = "bool" -> a.num = 1
      [] a.tag = "obj" -> TRUE
      [] a.tag = "str" -> a.obj # ""
      [] OTHER -> FALSE

\* asAtomHandler::toUInt: toInt read as an unsigned 32-bit number; a
\* negative number n stands for n + 2^32, kept as the pair (carry, n).
toUInt(a) == [carry |-> toInt(a) < 0, num |-> toInt(a)]

\* asAtomHandler::toInt64 on the values of the model.
toInt64(a) == toInt(a)

\* asAtomHandler::toNumber on the values of the model: a number or NaN.
toNumber(a) ==
    CASE a.tag \in {"int", "bool"} -> [nan |-> FALSE, num |-> a.num]
      [] a.tag = "null" -> [nan |-> FALSE, num |-> 0]
      [] a.tag = "str" /\ a.obj \in {"", "42"} -> [nan |-> FALSE, num |-> toInt(a)]
      [] OTHER -> [nan |-> TRUE, num |-> 0]

\* asAtomHandler::toString on the values of the model.
toString(a) ==
    CASE a.tag = "int" -> (CASE a.num = 42 -> "42" [] a.num = 0 -> "0"
                             [] a.num = -1 -> "-1")
      [] a.tag = "bool" -> (IF a.num = 1 THEN "true" ELSE "false")
      [] a.tag = "null" -> "null"
      [] a.tag = "undefined" -> "undefined"
      [] a.tag = "str" -> a.obj
      [] a.tag = "obj" -> "[object]"

----------------------------------------------------------------------------
\* Native values and reference counting.

Int32(n) == Val("int32", "none", n)
Bool(b) == Val("bool", "none", IF b THEN 1 ELSE 0)
UInt32(u) == Val("uint32", IF u.carry THEN "+2^32" ELSE "none", u.num)
Int64(n) == Val("int64", "none", n)
Number(x) == Val("number", IF x.nan THEN "NaN" ELSE "none", x.num)
TinyString(s) == Val("string", s, 0)
RGB(u) == Val("rgb", "none", u.num % (256 * 256 * 256))   \* Red, Green, Blue bytes
Handle(o) == Val("ref", o, 0)          \* _MR(o) / _MNR(o)
NullRef == Val("nullref", "none", 0)
NoValue == Val("novalue", "none", 0)   \* no value was produced (exception)
NoArg == Val("noarg", "none", 0)       \* no argument was left to read

\* o->incRef()
incRef(o, rc0) == [rc0 EXCEPT ![o] = @ + 1]

\* o->decRef()
decRef(o, rc0) == [rc0 EXCEPT ![o] = @ - 1]

\* ASATOM_INCREF(a): counts only when the atom refers to an object.
ASATOM_INCREF(a, rc0) == IF isObject(a) THEN incRef(a.obj, rc0) ELSE rc0

\* Concrete parameter types.
Ty(k, T) == [k |-> k, T |-> T]
IsHandleType(ty) == ty.k \in {"Ref", "NullableRef"}

\* Destruction of the handle a native variable held.
Release(nv, rc0) == IF nv.tag = "ref" THEN decRef(nv.obj, rc0) ELSE rc0

\* A new owning handle copied from nv.
Retain(nv, rc0) == IF nv.tag = "ref" THEN incRef(nv.obj, rc0) ELSE rc0

\* v = <temporary returned by toConcrete>: the temporary's reference moves
\* into v and the handle v held is released. An asAtom or a scalar is a plain
\* copy.
MoveAssign(ty, old, rc0) == IF IsHandleType(ty) THEN Release(old, rc0) ELSE rc0

\* v = defvalue: v becomes one more owner of the default's object and the
\* handle v held is released.
CopyAssign(ty, old, new, rc0) ==
    IF IsHandleType(ty) THEN Release(old, Retain(new, rc0)) ELSE rc0

----------------------------------------------------------------------------
\* Type Coercion Protocol, forward direction: [err, val, rc].

Ok(nv, rc0) == [err |-> "none", val |-> nv, rc |-> rc0]

\* throwError<ArgumentError>(kCheckTypeFailedError, ...): nothing is returned.
CheckTypeFailed(rc0) == [err |-> "checkTypeFailed", val |-> NoValue, rc |-> rc0]

\* toConcrete for asAtom with ASATOM_INCREF(obj) forgotten.
toConcrete_asAtomNoIncRef(obj, v, rc0) ==
    IF isNull(obj) THEN Ok(nullAtom, rc0)
    ELSE IF isUndefined(obj) THEN Ok(undefinedAtom, rc0)
    ELSE IF isValid(v) /\ ~isNull(v) /\ ~isUndefined(v)
            /\ ~checkArgumentConversion(v, obj)
    THEN CheckTypeFailed(rc0)
    ELSE Ok(obj, rc0)

\* ArgumentConversionAtom<asAtom>::toConcrete
toConcrete_asAtom(obj, v, rc0) ==
    IF isNull(obj) THEN Ok(nullAtom, rc0)
    ELSE IF isUndefined(obj) THEN Ok(undefinedAtom, rc0)
    ELSE IF isValid(v) /\ ~isNull(v) /\ ~isUndefined(v)
            /\ ~checkArgumentConversion(v, obj)
    THEN CheckTypeFailed(rc0)
    ELSE Ok(obj, ASATOM_INCREF(obj, rc0))

\* toConcrete for Ref<T> with the is<T> check forgotten.
toConcrete_RefNoCheck(T, obj, v, rc0) ==
    LET o == toObject(obj) IN Ok(Handle(o), incRef(o, rc0))

\* toConcrete for Ref<T> that lets null and undefined through as a handle to
\* the Null / Undefined object.
toConcrete_RefNullPasses(T, obj, v, rc0) ==
    IF ~is(T, obj) /\ ~isNull(obj) /\ ~isUndefined(obj) THEN CheckTypeFailed(rc0)
    ELSE LET o == toObject(obj) IN Ok(Handle(o), incRef(o, rc0))

\* ArgumentConversionAtom<Ref<T>>::toConcrete. The by-value parameter v is a
\* copy released on return: no net count.
\* toConcrete for Ref<T> with o->incRef() moved before the type check.
toConcrete_RefIncRefFirst(T, obj, v, rc0) ==
    LET o == toObject(obj)
    IN IF ~is(T, obj) THEN CheckTypeFailed(incRef(o, rc0))
       ELSE Ok(Handle(o), incRef(o, rc0))

toConcrete_Ref(T, obj, v, rc0) ==
    IF ~is(T, obj) THEN CheckTypeFailed(rc0)
    ELSE LET o == toObject(obj) IN Ok(Handle(o), incRef(o, rc0))

\* toConcrete for NullableRef<T> with o->incRef() forgotten.
toConcrete_NullableRefNoIncRef(T, obj, v, rc0) ==
    IF isNull(obj) THEN Ok(NullRef, rc0)
    ELSE IF isUndefined(obj) THEN Ok(NullRef, rc0)
    ELSE IF ~is(T, obj) THEN CheckTypeFailed(rc0)
    ELSE LET o == toObject(obj) IN Ok(Handle(o), rc0)

\* ArgumentConversionAtom<NullableRef<T>>::toConcrete
toConcrete_NullableRef(T, obj, v, rc0) ==
    IF isNull(obj) THEN Ok(NullRef, rc0)
    ELSE IF isUndefined(obj) THEN Ok(NullRef, rc0)
    ELSE IF ~is(T, obj) THEN CheckTypeFailed(rc0)
    ELSE LET o == toObject(obj) IN Ok(Handle(o), incRef(o, rc0))

\* ArgumentConversionAtom<NullableRef<ASObject>>::toConcrete
toConcrete_NullableRef_ASObject(obj, v, rc0) ==
    LET o == toObject(obj) IN Ok(Handle(o), incRef(o, rc0))

\* ArgumentConversionAtom<int32_t>::toConcrete
\* toConcrete for int32_t returning the variable's own content.
toConcrete_int32KeepsPrior(obj, v, rc0) == Ok(v, rc0)

toConcrete_int32(obj, v, rc0) == Ok(Int32(toInt(obj)), rc0)

\* ArgumentConversionAtom<bool>::toConcrete
\* toConcrete for bool reading the value as a number.
toConcrete_boolFromInt(obj, v, rc0) == Ok(Bool(toInt(obj) # 0), rc0)

toConcrete_bool(obj, v, rc0) == Ok(Bool(Boolean_concrete(obj)), rc0)

\* ArgumentConversionAtom<number_t>::toConcrete
toConcrete_number(obj, v, rc0) == Ok(Number(toNumber(obj)), rc0)

\* ArgumentConversionAtom<uint32_t>::toConcrete
toConcrete_uint32(obj, v, rc0) == Ok(UInt32(toUInt(obj)), rc0)

\* ArgumentConversionAtom<int64_t>::toConcrete
toConcrete_int64(obj, v, rc0) == Ok(Int64(toInt64(obj)), rc0)

\* ArgumentConversionAtom<tiny_string>::toConcrete
toConcrete_tiny_string(obj, v, rc0) == Ok(TinyString(toString(obj)), rc0)

\* ArgumentConversionAtom<RGB>::toConcrete
toConcrete_RGB(obj, v, rc0) == Ok(RGB(toUInt(obj)), rc0)

\* ArgumentConversionAtom<T>::toConcrete, the specialization chosen for T.
toConcrete(ty, obj, v, rc0) ==
    CASE ty.k = "asAtom" -> toConcrete_asAtom(obj, v, rc0)
      [] ty.k = "Ref" -> toConcrete_Ref(ty.T, obj, v, rc0)
      [] ty.k = "NullableRef" /\ ty.T = "ASObject" ->
             toConcrete_NullableRef_ASObject(obj, v, rc0)
      [] ty.k = "NullableRef" /\ ty.T # "ASObject" ->
             toConcrete_NullableRef(ty.T, obj, v, rc0)
      [] ty.k = "int32" -> toConcrete_int32(obj, v, rc0)
      [] ty.k = "bool" -> toConcrete_bool(obj, v, rc0)
      [] ty.k = "number" -> toConcrete_number(obj, v, rc0)
      [] ty.k = "uint32" -> toConcrete_uint32(obj, v, rc0)
      [] ty.k = "int64" -> toConcrete_int64(obj, v, rc0)
      [] ty.k = "tiny_string" -> toConcrete_tiny_string(obj, v, rc0)
      [] ty.k = "RGB" -> toConcrete_RGB(obj, v, rc0)

----------------------------------------------------------------------------
\* Type Coercion Protocol, reverse direction: [ret, rc].

Abs(a, rc0) == [ret |-> a, rc |-> rc0]

\* asAtomHandler::fromObject
fromObject(o) == ObjAtom(o)

\* ArgumentConversionAtom<asAtom>::toAbstract
toAbstract_asAtom(val, rc0) ==
    IF isInvalid(val) THEN Abs(nullAtom, rc0)
    ELSE Abs(val, ASATOM_INCREF(val, rc0))

\* toAbstract for Ref<T> with val->incRef() forgotten.
toAbstract_RefNoIncRef(val, rc0) == Abs(fromObject(val.obj), rc0)

\* ArgumentConversionAtom<Ref<T>>::toAbstract
toAbstract_Ref(val, rc0) == Abs(fromObject(val.obj), incRef(val.obj, rc0))

\* toAbstract for NullableRef<T> with val->incRef() forgotten.
toAbstract_NullableRefNoIncRef(val, rc0) ==
    IF val = NullRef THEN Abs(nullAtom, rc0)
    ELSE Abs(fromObject(val.obj), rc0)

\* ArgumentConversionAtom<NullableRef<T>>::toAbstract
toAbstract_NullableRef(val, rc0) ==
    IF val = NullRef THEN Abs(nullAtom, rc0)
    ELSE Abs(fromObject(val.obj), incRef(val.obj, rc0))

\* ArgumentConversionAtom<NullableRef<ASObject>>::toAbstract
toAbstract_NullableRef_ASObject(val, rc0) ==
    IF val = NullRef THEN Abs(nullAtom, rc0)
    ELSE Abs(fromObject(val.obj), incRef(val.obj, rc0))

\* ArgumentConversionAtom<int32_t>::toAbstract
toAbstract_int32(val, rc0) == Abs(IntAtom(val.num), rc0)

\* ArgumentConversionAtom<bool>::toAbstract
toAbstract_bool(val, rc0) == Abs(BoolAtom(val.num = 1), rc0)

\* ArgumentConversionAtom<T>::toAbstract, the specialization chosen for T.
toAbstract(ty, val, rc0) ==
    CASE ty.k = "asAtom" -> toAbstract_asAtom(val, rc0)
      [] ty.k = "Ref" -> toAbstract_Ref(val, rc0)
      [] ty.k = "NullableRef" /\ ty.T = "ASObject" ->
             toAbstract_NullableRef_ASObject(val, rc0)
      [] ty.k = "NullableRef" /\ ty.T # "ASObject" ->
             toAbstract_NullableRef(val, rc0)
      [] ty.k = "int32" -> toAbstract_int32(val, rc0)
      [] ty.k = "bool" -> toAbstract_bool(val, rc0)

----------------------------------------------------------------------------
\* Inputs explored.

\* Arguments the interpreter passes to a native call.
ArgValues == {undefinedAtom, nullAtom, IntAtom(42), ObjAtom("sprite1"),
              ObjAtom("csm1")}

\* Dynamic values offered to a single coercion.
DynValues == ArgValues \cup {IntAtom(0), BoolAtom(FALSE), ObjAtom("disp1")}

ArgArrays == UNION {[1..n -> ArgValues] : n \in 0..MaxArgs}

\* Native variables a call site hands to operator(): type, content before
\* the call, and the default used when the slot is a defaulted one.
Decl(ty, prior, def) == [ty |-> ty, prior |-> prior, def |-> def]

SlotMenu ==
    { Decl(Ty("int32", "-"), Int32(0), Int32(7)),
      Decl(Ty("bool", "-"), Bool(FALSE), Bool(TRUE)),
      Decl(Ty("asAtom", "-"), invalidAtom, nullAtom),
      Decl(Ty("asAtom", "-"), ObjAtom("csm1"), nullAtom),
      Decl(Ty("Ref", "DisplayObject"), Handle("disp1"), Handle("disp1")),
      Decl(Ty("Ref", "ASObject"), Handle("csm1"), Handle("sprite1")),
      Decl(Ty("NullableRef", "DisplayObject"), NullRef, NullRef),
      Decl(Ty("NullableRef", "DisplayObject"), Handle("disp1"), NullRef),
      Decl(Ty("NullableRef", "ASObject"), NullRef, Handle("csm1")) }

\* Every object starts with the interpreter's reference and one for each
\* native variable that may already hold it.
InitRefs == MaxSlots + 1

NoConv == [ty |-> Ty("none", "-"), v |-> NoValue, n |-> 0, op |-> "none",
           obj |-> NoValue, prior |-> NoValue, err |-> "none",
           out |-> NoValue, rcBefore |-> [o \in Objects |-> 0],
           rcAfter |-> [o \in Objects |-> 0]]

----------------------------------------------------------------------------
\* Argument Unpacker.

\* No object is being followed.
NoOwners == [obj |-> "none", interp |-> 0, native |-> 0, dynamic |-> 0]

\* ArgUnpackAtom(wrk, args, argslen, moreAllowed), or without moreAllowed in
\* an NDEBUG build, where moreAllowed only records which macro opened the
\* chain (ARG_UNPACK_ATOM or ARG_UNPACK_ATOM_MORE_ALLOWED) and nothing reads it.
Init ==
    /\ args \in ArgArrays
    /\ cursor = 0
    /\ argslen = Len(args)
    /\ ndebug \in BOOLEAN
    /\ moreAllowed \in BOOLEAN
    /\ limit = MaxSlots
    /\ owners = NoOwners
    /\ slots = << >>
    /\ err = "none"
    /\ pc = "unpacking"
    /\ diag = 0
    /\ rc = [o \in Objects |-> InitRefs]
    /\ conv = NoConv

Slot(d, required, val, arg) ==
    [ty |-> d.ty, required |-> required, prior |-> d.prior,
     def |-> IF required THEN NoValue ELSE d.def, val |-> val, arg |-> arg]

\* Throw with v already overwritten when the exception leaves.
ThrowClobbers(d, required, arg, kind, rc1) ==
    /\ slots' = Append(slots, Slot(d, required, NoValue, arg))
    /\ err' = kind
    /\ pc' = "thrown"
    /\ rc' = rc1
    /\ UNCHANGED <<cursor, argslen>>

\* Throw with the refused argument counted as consumed.
ThrowConsumes(d, required, arg, kind, rc1) ==
    /\ slots' = Append(slots, Slot(d, required, d.prior, arg))
    /\ err' = kind
    /\ pc' = "thrown"
    /\ rc' = rc1
    /\ cursor' = IF arg = NoArg THEN cursor ELSE cursor + 1
    /\ argslen' = IF arg = NoArg THEN argslen ELSE argslen - 1

\* The exception leaves operator(): v, args and argslen keep their values;
\* rc1 are the counts as the throwing call left them.
Throw(d, required, arg, kind, rc1) ==
    /\ slots' = Append(slots, Slot(d, required, d.prior, arg))
    /\ err' = kind
    /\ pc' = "thrown"
    /\ rc' = rc1
    /\ UNCHANGED <<cursor, argslen>>

\* Consume with the cursor left where it was (args++ forgotten).
ConsumeNoAdvance(d, required) ==
    LET a == args[cursor + 1]
        r == toConcrete(d.ty, a, d.prior, rc)
    IN IF r.err # "none"
       THEN Throw(d, required, a, r.err, r.rc)
       ELSE /\ slots' = Append(slots, Slot(d, required, r.val, a))
            /\ rc' = MoveAssign(d.ty, d.prior, r.rc)
            /\ argslen' = argslen - 1
            /\ UNCHANGED <<cursor, err, pc>>

\* v = toConcrete(wrk, args[0], v); args++; argslen--;
Consume(d, required) ==
    LET a == args[cursor + 1]
        r == toConcrete(d.ty, a, d.prior, rc)
    IN IF r.err # "none"
       THEN Throw(d, required, a, r.err, r.rc)
       ELSE /\ slots' = Append(slots, Slot(d, required, r.val, a))
            /\ rc' = MoveAssign(d.ty, d.prior, r.rc)
            /\ cursor' = cursor + 1
            /\ argslen' = argslen - 1
            /\ UNCHANGED <<err, pc>>

\* operator()(T& v) without the argslen == 0 check: v is left alone and the
\* chain goes on.
RequiredSlotLenient(d) ==
    /\ pc = "unpacking"
    /\ Len(slots) < limit
    /\ IF argslen = 0
       THEN /\ slots' = Append(slots, Slot(d, TRUE, d.prior, NoArg))
            /\ UNCHANGED <<cursor, argslen, err, pc, rc>>
       ELSE Consume(d, TRUE)
    /\ UNCHANGED <<args, moreAllowed, ndebug, limit, owners, diag, conv>>

\* operator()(T& v) refusing the last argument: argslen <= 1 in place of
\* argslen == 0.
RequiredSlotEager(d) ==
    /\ pc = "unpacking"
    /\ Len(slots) < limit
    /\ IF argslen <= 1
       THEN Throw(d, TRUE, NoArg, "wrongArgumentCount", rc)
       ELSE Consume(d, TRUE)
    /\ UNCHANGED <<args, moreAllowed, ndebug, limit, owners, diag, conv>>

\* ArgUnpackAtom::operator()(T& v)
RequiredSlot(d) ==
    /\ pc = "unpacking"
    /\ Len(slots) < limit
    /\ IF argslen = 0
       THEN Throw(d, TRUE, NoArg, "wrongArgumentCount", rc)
       ELSE Consume(d, TRUE)
    /\ UNCHANGED <<args, moreAllowed, ndebug, limit, owners, diag, conv>>

\* operator()(T& v, defvalue) with the else branch missing: v keeps its
\* content when no argument is left.
DefaultedSlotKeepsPrior(d) ==
    /\ pc = "unpacking"
    /\ Len(slots) < limit
    /\ IF argslen > 0
       THEN Consume(d, FALSE)
       ELSE /\ slots' = Append(slots, Slot(d, FALSE, d.prior, NoArg))
            /\ UNCHANGED <<cursor, argslen, err, pc, rc>>
    /\ UNCHANGED <<args, moreAllowed, ndebug, limit, owners, diag, conv>>

\* operator()(T& v, defvalue) falling back to the default when the argument
\* is refused.
DefaultedSlotFallback(d) ==
    /\ pc = "unpacking"
    /\ Len(slots) < limit
    /\ IF argslen > 0
       THEN IF toConcrete(d.ty, args[cursor + 1], d.prior, rc).err = "none"
            THEN Consume(d, FALSE)
            ELSE /\ slots' = Append(slots, Slot(d, FALSE, d.def, args[cursor + 1]))
                 /\ rc' = CopyAssign(d.ty, d.prior, d.def, rc)
                 /\ cursor' = cursor + 1
                 /\ argslen' = argslen - 1
                 /\ UNCHANGED <<err, pc>>
       ELSE /\ slots' = Append(slots, Slot(d, FALSE, d.def, NoArg))
            /\ rc' = CopyAssign(d.ty, d.prior, d.def, rc)
            /\ UNCHANGED <<cursor, argslen, err, pc>>
    /\ UNCHANGED <<args, moreAllowed, ndebug, limit, owners, diag, conv>>

\* operator()(T& v, defvalue) taking the default while one argument is left:
\* argslen > 1 in place of argslen > 0.
DefaultedSlotEarlyDefault(d) ==
    /\ pc = "unpacking"
    /\ Len(slots) < limit
    /\ IF argslen > 1
       THEN Consume(d, FALSE)
       ELSE /\ slots' = Append(slots, Slot(d, FALSE, d.def, NoArg))
            /\ rc' = CopyAssign(d.ty, d.prior, d.def, rc)
            /\ UNCHANGED <<cursor, argslen, err, pc>>
    /\ UNCHANGED <<args, moreAllowed, ndebug, limit, owners, diag, conv>>

\* operator()(T& v, defvalue) counting the default as a consumed argument.
DefaultedSlotCountsDefault(d) ==
    /\ pc = "unpacking"
    /\ Len(slots) < limit
    /\ IF argslen > 0
       THEN Consume(d, FALSE)
       ELSE /\ slots' = Append(slots, Slot(d, FALSE, d.def, NoArg))
            /\ rc' = CopyAssign(d.ty, d.prior, d.def, rc)
            /\ argslen' = argslen - 1
            /\ UNCHANGED <<cursor, err, pc>>
    /\ UNCHANGED <<args, moreAllowed, ndebug, limit, owners, diag, conv>>

\* ArgUnpackAtom::operator()(T& v, const TD& defvalue)
DefaultedSlot(d) ==
    /\ pc = "unpacking"
    /\ Len(slots) < limit
    /\ IF argslen > 0
       THEN Consume(d, FALSE)
       ELSE /\ slots' = Append(slots, Slot(d, FALSE, d.def, NoArg))
            /\ rc' = CopyAssign(d.ty, d.prior, d.def, rc)
            /\ UNCHANGED <<cursor, argslen, err, pc>>
    /\ UNCHANGED <<args, moreAllowed, ndebug, limit, owners, diag, conv>>

\* The destructor logging once per argument left over.
DestroyCountsExtras ==
    /\ pc \in {"unpacking", "thrown"}
    /\ pc' = "destroyed"
    /\ diag' = IF ~ndebug /\ ~moreAllowed THEN diag + argslen ELSE diag
    /\ UNCHANGED <<args, cursor, argslen, moreAllowed, ndebug, limit, owners, slots,
                 err, rc, conv>>

\* ArgUnpackAtom::~ArgUnpackAtom(): at the end of the chain, or while the
\* exception unwinds. An NDEBUG build has no destructor body.
Destroy ==
    /\ pc \in {"unpacking", "thrown"}
    /\ pc' = "destroyed"
    /\ diag' = IF ~ndebug /\ argslen > 0 /\ ~moreAllowed THEN diag + 1 ELSE diag
    /\ UNCHANGED <<args, cursor, argslen, moreAllowed, ndebug, limit, owners, slots,
                 err, rc, conv>>

Next ==
    \/ \E d \in SlotMenu : RequiredSlot(d)
    \/ \E d \in SlotMenu : DefaultedSlot(d)
    \/ Destroy

Spec == Init /\ [][Next]_vars

----------------------------------------------------------------------------
\* One native variable coerced directly, as a property setter and getter do:
\* v = toConcrete(wrk, value, v) and toAbstract(ret, wrk, v).

\* The variables explored: type and content.
ConvMenu ==
    { <<Ty("int32", "-"), Int32(7)>>,
      <<Ty("bool", "-"), Bool(TRUE)>>,
      <<Ty("asAtom", "-"), invalidAtom>>,
      <<Ty("asAtom", "-"), nullAtom>>,
      <<Ty("asAtom", "-"), undefinedAtom>>,
      <<Ty("asAtom", "-"), IntAtom(42)>>,
      <<Ty("asAtom", "-"), ObjAtom("csm1")>>,
      <<Ty("Ref", "DisplayObject"), Handle("disp1")>>,
      <<Ty("Ref", "CSMSettings"), Handle("csm1")>>,
      <<Ty("Ref", "ASObject"), Handle("csm1")>>,
      <<Ty("NullableRef", "DisplayObject"), NullRef>>,
      <<Ty("NullableRef", "DisplayObject"), Handle("sprite1")>>,
      <<Ty("NullableRef", "ASObject"), NullRef>>,
      <<Ty("NullableRef", "ASObject"), Handle("disp1")>> }

InitConv ==
    /\ args = << >>
    /\ cursor = 0
    /\ argslen = 0
    /\ moreAllowed = FALSE
    /\ ndebug = FALSE
    /\ limit = 0
    /\ owners = NoOwners
    /\ slots = << >>
    /\ err = "none"
    /\ pc = "destroyed"
    /\ diag = 0
    /\ rc = [o \in Objects |-> InitRefs]
    /\ \E m \in ConvMenu : conv = [NoConv EXCEPT !.ty = m[1], !.v = m[2]]

\* v = ArgumentConversionAtom<T>::toConcrete(wrk, obj, v)
Forward(obj) ==
    LET r == toConcrete(conv.ty, obj, conv.v, rc)
    IN /\ conv.n < MaxOps
       /\ conv' = [conv EXCEPT !.n = @ + 1, !.op = "toConcrete", !.obj = obj,
                               !.prior = conv.v, !.err = r.err, !.out = r.val,
                               !.rcBefore = rc, !.rcAfter = r.rc,
                               !.v = IF r.err = "none" THEN r.val ELSE @]
       /\ rc' = IF r.err = "none" THEN MoveAssign(conv.ty, conv.v, r.rc) ELSE rc
       /\ UNCHANGED <<args, cursor, argslen, moreAllowed, ndebug, limit, owners,
                    slots, err, pc, diag>>

\* ArgumentConversionAtom<T>::toAbstract(ret, wrk, v)
Reverse ==
    LET r == toAbstract(conv.ty, conv.v, rc)
    IN /\ conv.n < MaxOps
       /\ conv' = [conv EXCEPT !.n = @ + 1, !.op = "toAbstract", !.obj = NoValue,
                               !.prior = conv.v, !.err = "none", !.out = r.ret,
                               !.rcBefore = rc, !.rcAfter = r.rc]
       /\ rc' = r.rc
       /\ UNCHANGED <<args, cursor, argslen, moreAllowed, ndebug, limit, owners,
                    slots, err, pc, diag>>

NextConv ==
    \/ \E obj \in DynValues : Forward(obj)
    \/ Reverse

SpecConv == InitConv /\ [][NextConv]_vars

----------------------------------------------------------------------------
\* Round trip of one object: the interpreter holds it, a native handle takes
\* it by toConcrete, toAbstract hands it back as dynamic values, and the
\* owners let go in any order.

\* The reference-typed variables of ConvMenu.
OwnMenu == {m \in ConvMenu : IsHandleType(m[1])}

\* Objects the interpreter passes.
OwnObjects == {"sprite1", "disp1", "csm1"}

\* Each object is held once by the interpreter, and once more by the
\* variable when it already holds it.
InitOwn ==
    /\ args = << >>
    /\ cursor = 0
    /\ argslen = 0
    /\ moreAllowed = FALSE
    /\ ndebug = FALSE
    /\ limit = 0
    /\ owners = NoOwners
    /\ slots = << >>
    /\ err = "none"
    /\ pc = "destroyed"
    /\ diag = 0
    /\ \E m \in OwnMenu :
          /\ conv = [NoConv EXCEPT !.ty = m[1], !.v = m[2]]
          /\ rc = [o \in Objects |-> IF m[2] = Handle(o) THEN 2 ELSE 1]

\* v = ArgumentConversionAtom<T>::toConcrete(wrk, obj, v), accepted.
OwnForward(o) ==
    LET r == toConcrete(conv.ty, ObjAtom(o), conv.v, rc)
    IN /\ owners.obj = "none"
       /\ r.err = "none"
       /\ conv' = [conv EXCEPT !.n = @ + 1, !.op = "toConcrete", !.obj = ObjAtom(o),
                               !.prior = conv.v, !.err = r.err, !.out = r.val,
                               !.rcBefore = rc, !.rcAfter = r.rc, !.v = r.val]
       /\ rc' = MoveAssign(conv.ty, conv.v, r.rc)
       /\ owners' = [obj |-> o, interp |-> 1, native |-> 1, dynamic |-> 0]
       /\ UNCHANGED <<args, cursor, argslen, moreAllowed, ndebug, limit,
                      slots, err, pc, diag>>

\* ArgumentConversionAtom<T>::toAbstract(ret, wrk, v): one more dynamic value.
OwnReverse ==
    LET r == toAbstract(conv.ty, conv.v, rc)
    IN /\ owners.native = 1
       /\ conv.n <= MaxOps
       /\ conv' = [conv EXCEPT !.n = @ + 1, !.op = "toAbstract", !.obj = NoValue,
                               !.prior = conv.v, !.err = "none", !.out = r.ret,
                               !.rcBefore = rc, !.rcAfter = r.rc]
       /\ rc' = r.rc
       /\ owners' = [owners EXCEPT !.dynamic = @ + 1]
       /\ UNCHANGED <<args, cursor, argslen, moreAllowed, ndebug, limit,
                      slots, err, pc, diag>>

\* The native handle is destroyed.
ReleaseNative ==
    /\ owners.native = 1
    /\ rc' = Release(conv.v, rc)
    /\ owners' = [owners EXCEPT !.native = 0]
    /\ UNCHANGED <<args, cursor, argslen, moreAllowed, ndebug, limit,
                   slots, err, pc, diag, conv>>

\* A dynamic value made by toAbstract is dropped.
ReleaseDynamic ==
    /\ owners.dynamic > 0
    /\ rc' = decRef(owners.obj, rc)
    /\ owners' = [owners EXCEPT !.dynamic = @ - 1]
    /\ UNCHANGED <<args, cursor, argslen, moreAllowed, ndebug, limit,
                   slots, err, pc, diag, conv>>

\* The interpreter drops its own reference.
ReleaseInterp ==
    /\ owners.interp = 1
    /\ rc' = decRef(owners.obj, rc)
    /\ owners' = [owners EXCEPT !.interp = 0]
    /\ UNCHANGED <<args, cursor, argslen, moreAllowed, ndebug, limit,
                   slots, err, pc, diag, conv>>

NextOwn ==
    \/ \E o \in OwnObjects : OwnForward(o)
    \/ OwnReverse
    \/ ReleaseNative
    \/ ReleaseDynamic
    \/ ReleaseInterp

SpecOwn == InitOwn /\ [][NextOwn]_vars

----------------------------------------------------------------------------
\* Properties of the Argument Unpacker, checked under Spec.

\* The slot operator() was last applied to.
Top == slots[Len(slots)]

\* A step that applies one more slot.
Applies == pc = "unpacking" /\ Len(slots') = Len(slots) + 1
NewSlot == slots'[Len(slots')]

\* How a handle assignment moves the counts: the object the variable held
\* loses one reference, the object it now holds gains one.
CountsAfterAssign(ty, old, new) ==
    [o \in Objects |->
        rc[o]
        + (IF IsHandleType(ty) /\ new.tag = "ref" /\ new.obj = o THEN 1 ELSE 0)
        - (IF IsHandleType(ty) /\ old.tag = "ref" /\ old.obj = o THEN 1 ELSE 0)]

\* C1: a required slot applied while an argument remains and whose coercion
\* succeeds sets its variable to toConcrete(next argument), moves the cursor
\* forward by one, takes one off the remaining count and changes no variable
\* of an earlier slot.
C1_Step ==
    (Applies /\ NewSlot.required /\ argslen > 0 /\ err' = "none")
    => /\ NewSlot.val = toConcrete(NewSlot.ty, args[cursor + 1], NewSlot.prior, rc).val
       /\ (NewSlot.ty.k = "int32" /\ args[cursor + 1] = IntAtom(42)
              => NewSlot.val = Int32(42))
       /\ (IsHandleType(NewSlot.ty) /\ isObject(args[cursor + 1])
              => NewSlot.val = Handle(args[cursor + 1].obj))
       /\ cursor' = cursor + 1
       /\ argslen' = argslen - 1
       /\ argslen' + cursor' = Len(args)
       /\ SubSeq(slots', 1, Len(slots)) = slots
       /\ args' = args

C1_RequiredConsumes == [][C1_Step]_vars

\* Two required slots have consumed the two arguments, the second a Sprite.
C1_Witness ==
    /\ pc = "unpacking" /\ err = "none" /\ Len(slots) = 2 /\ cursor = 2
    /\ slots[1].required /\ slots[2].required
    /\ args[2] = ObjAtom("sprite1") /\ slots[2].val = Handle("sprite1")

\* C2: a required slot of any type applied when no argument remains throws
\* the wrong-argument-count error and leaves its variable, the cursor and the
\* remaining count as they were.
C2_Step ==
    (Applies /\ NewSlot.required /\ argslen = 0)
    => /\ err' = "wrongArgumentCount"
       /\ pc' = "thrown"
       /\ NewSlot.val = NewSlot.prior
       /\ NewSlot.arg = NoArg
       /\ cursor' = cursor
       /\ argslen' = 0

C2_RequiredFailsOnEmpty == [][C2_Step]_vars

\* A required strong-reference slot found the single argument already consumed.
C2_Witness ==
    /\ err = "wrongArgumentCount" /\ pc = "thrown" /\ Len(slots) = 2
    /\ Len(args) = 1 /\ cursor = 1 /\ argslen = 0
    /\ Top.required /\ Top.ty.k = "Ref" /\ Top.val = Top.prior

\* C3 as stated: a defaulted slot applied when no argument remains sets its
\* variable to the default, throws nothing and leaves the cursor, the
\* remaining count and every reference count unchanged.
C3_OriginalStep ==
    (Applies /\ ~NewSlot.required /\ argslen = 0)
    => /\ NewSlot.val = NewSlot.def
       /\ err' = "none" /\ pc' = "unpacking"
       /\ cursor' = cursor
       /\ argslen' = argslen
       /\ rc' = rc

C3_Original == [][C3_OriginalStep]_vars

\* C3 (amended): a defaulted slot applied when no argument remains sets its
\* variable to the default, throws nothing, coerces nothing and leaves the
\* cursor and the remaining count unchanged; the only reference counts that
\* move are those of the handle assignment itself: the object the variable
\* held loses one reference and the default's object gains one.
C3_Step ==
    (Applies /\ ~NewSlot.required /\ argslen = 0)
    => /\ NewSlot.val = NewSlot.def
       /\ NewSlot.arg = NoArg
       /\ err' = "none" /\ pc' = "unpacking"
       /\ cursor' = cursor
       /\ argslen' = argslen
       /\ rc' = CountsAfterAssign(NewSlot.ty, NewSlot.prior, NewSlot.def)
       /\ (~IsHandleType(NewSlot.ty) => rc' = rc)
       /\ (NewSlot.prior.tag # "ref" /\ NewSlot.def.tag # "ref" => rc' = rc)

C3_DefaultTaken == [][C3_Step]_vars

\* A nullable-reference variable that held disp1 took the empty default.
C3_Witness ==
    /\ pc = "unpacking" /\ err = "none" /\ Len(slots) = 1 /\ Len(args) = 0
    /\ ~Top.required /\ Top.arg = NoArg
    /\ Top.prior = Handle("disp1") /\ Top.val = NullRef
    /\ rc["disp1"] = InitRefs - 1

\* Slot i (from 1) consumed argument i exactly when i is at most the cursor.
CoercedFrom(i) ==
    /\ i <= Len(args)
    /\ slots[i].arg = args[i]
    /\ slots[i].val = toConcrete(slots[i].ty, args[i], slots[i].prior, rc).val

\* C4 as stated: after a failure at slot k, every earlier slot holds the value
\* coerced from the argument at its own position and slot k holds its prior
\* value.
C4_Original ==
    err # "none"
    => /\ Top.val = Top.prior
       /\ \A i \in 1..(Len(slots) - 1) : CoercedFrom(i)

\* C4 (amended): after a failure at slot k, every earlier slot that consumed
\* an argument holds the value coerced from the argument at its position,
\* every earlier slot applied after the arguments ran out holds its default,
\* slot k holds its prior value, and no further slot is applied.
C4_State ==
    err # "none"
    => /\ pc \in {"thrown", "destroyed"}
       /\ Top.val = Top.prior
       /\ \A i \in 1..(Len(slots) - 1) :
              IF i <= cursor
              THEN CoercedFrom(i)
              ELSE ~slots[i].required /\ slots[i].val = slots[i].def
       /\ (err = "checkTypeFailed" => cursor = Len(slots) - 1 /\ argslen > 0)
       /\ (err = "wrongArgumentCount" => Top.required /\ argslen = 0)

C4_Frozen == err # "none" => slots' = slots /\ cursor' = cursor /\ argslen' = argslen

C4_PartialMutation == [](C4_State) /\ [][C4_Frozen]_vars

\* The second slot failed its type check after the first consumed argument 1.
C4_Witness ==
    /\ err = "checkTypeFailed" /\ Len(slots) = 2 /\ cursor = 1
    /\ slots[1].val = Int32(42) /\ slots[1].prior = Int32(0)
    /\ Top.ty = Ty("Ref", "DisplayObject") /\ Top.val = Top.prior
    /\ pc = "destroyed"


\* C5: a value offered to a required or defaulted Ref<T> slot is accepted,
\* as a handle to that very object, when its runtime class is T or a subtype
\* of T; otherwise the unpack fails there with type-check-failed and the
\* slot's variable keeps its prior value.
C5_RefTypeCheck ==
    \A i \in DOMAIN slots :
        (slots[i].ty.k = "Ref" /\ slots[i].arg # NoArg)
        => LET a == slots[i].arg
               failedHere == i = Len(slots) /\ err # "none"
           IN /\ IF IsSubclass(ClassOf(a), slots[i].ty.T)
                 THEN ~failedHere /\ slots[i].val = Handle(toObject(a))
                 ELSE /\ failedHere /\ err = "checkTypeFailed"
                      /\ slots[i].val = slots[i].prior
              /\ (a = ObjAtom("csm1") /\ slots[i].ty.T = "DisplayObject"
                     => failedHere /\ slots[i].val = Handle("disp1"))
              /\ (a = IntAtom(42) /\ slots[i].ty.T = "DisplayObject" => failedHere)
              /\ (a = ObjAtom("sprite1") => slots[i].val = Handle("sprite1"))

\* A CSMSettings object was refused by a Ref<DisplayObject> slot.
C5_Witness ==
    /\ err = "checkTypeFailed" /\ pc = "thrown"
    /\ Top.ty = Ty("Ref", "DisplayObject") /\ Top.arg = ObjAtom("csm1")
    /\ Top.val = Handle("disp1")

\* A Sprite was accepted by a Ref<DisplayObject> slot.
C5_Accepted ==
    /\ err = "none" /\ Len(slots) = 1
    /\ Top.ty = Ty("Ref", "DisplayObject") /\ Top.val = Handle("sprite1")

----------------------------------------------------------------------------
\* Properties of the coercions, checked under SpecConv on the record of the
\* last coercion: conv.obj the dynamic value, conv.prior the content of the
\* variable, conv.out what was returned, conv.rcBefore / conv.rcAfter the
\* counts around the call itself.

IsForward == conv.op = "toConcrete"
IsReverse == conv.op = "toAbstract"

\* The counts after the call are those before it, with one more on o.
OneMoreOn(o) == conv.rcAfter = [conv.rcBefore EXCEPT ![o] = @ + 1]
SameCounts == conv.rcAfter = conv.rcBefore

\* C6: null or undefined coerced into any NullableRef<T> slot, NullableRef<ASObject>
\* included, gives the empty handle and changes no reference count.
C6_NullIntoNullable ==
    (IsForward /\ conv.ty.k = "NullableRef" /\ (isNull(conv.obj) \/ isUndefined(conv.obj)))
    => conv.err = "none" /\ conv.out = NullRef /\ SameCounts

\* C7 as stated: null or undefined coerced into any Ref<T> slot fails with
\* type-check-failed and gives no handle.
C7_Original ==
    (IsForward /\ conv.ty.k = "Ref" /\ (isNull(conv.obj) \/ isUndefined(conv.obj)))
    => conv.err = "checkTypeFailed" /\ conv.out = NoValue

\* C7 (amended): null or undefined coerced into a Ref<T> slot fails with
\* type-check-failed, gives no handle and changes no count, for every T other
\* than the root class ASObject; Ref<ASObject>, whose class check Null and
\* Undefined pass, takes a counted handle to the Null / Undefined object.
C7_NullIntoRef ==
    (IsForward /\ conv.ty.k = "Ref" /\ (isNull(conv.obj) \/ isUndefined(conv.obj)))
    => IF conv.ty.T # "ASObject"
       THEN /\ conv.err = "checkTypeFailed" /\ conv.out = NoValue
            /\ SameCounts /\ conv.v = conv.prior
       ELSE /\ conv.err = "none"
            /\ conv.out = Handle(IF isNull(conv.obj) THEN "nullObj" ELSE "undefObj")
            /\ OneMoreOn(conv.out.obj)

\* null was refused by a Ref<DisplayObject> variable holding disp1.
C7_Witness ==
    /\ IsForward /\ conv.ty = Ty("Ref", "DisplayObject") /\ isNull(conv.obj)
    /\ conv.err = "checkTypeFailed" /\ conv.v = Handle("disp1")

\* C8 as stated, for the asAtom slot: the coercion never fails, whatever the
\* value and the content of the variable; null and undefined come back as the
\* sentinels with no count changed; an object comes back with one more
\* reference.
C8_Original ==
    (IsForward /\ conv.ty.k = "asAtom")
    => /\ conv.err = "none"
       /\ (isNull(conv.obj) => conv.out = nullAtom /\ SameCounts)
       /\ (isUndefined(conv.obj) => conv.out = undefinedAtom /\ SameCounts)
       /\ (isObject(conv.obj) => conv.out = conv.obj /\ OneMoreOn(conv.obj.obj))

\* The variable holds nothing to compare the new value with.
Vacant(v) == isInvalid(v) \/ isNull(v) \/ isUndefined(v)

\* C8 (amended): coercion into an asAtom slot checks no declared class; null
\* and undefined always come back as the sentinels with no count changed; any
\* other value fails with type-check-failed exactly when the variable already
\* holds a valid value other than null / undefined whose kind differs from the
\* new value's (checkArgumentConversion), and otherwise comes back itself, an
\* object with exactly one more reference.
C8_UniversalSlot ==
    (IsForward /\ conv.ty.k = "asAtom")
    => /\ (isNull(conv.obj) => conv.err = "none" /\ conv.out = nullAtom /\ SameCounts)
       /\ (isUndefined(conv.obj)
              => conv.err = "none" /\ conv.out = undefinedAtom /\ SameCounts)
       /\ (~isNull(conv.obj) /\ ~isUndefined(conv.obj)
              => IF Vacant(conv.prior) \/ ClassOf(conv.prior) = ClassOf(conv.obj)
                 THEN /\ conv.err = "none" /\ conv.out = conv.obj
                      /\ IF isObject(conv.obj) THEN OneMoreOn(conv.obj.obj)
                                               ELSE SameCounts
                 ELSE conv.err = "checkTypeFailed" /\ conv.out = NoValue /\ SameCounts)

\* An empty asAtom variable took a Sprite, counted once.
C8_Witness ==
    /\ IsForward /\ conv.ty.k = "asAtom" /\ conv.prior = invalidAtom
    /\ conv.obj = ObjAtom("sprite1") /\ conv.out = ObjAtom("sprite1")
    /\ conv.rcAfter["sprite1"] = conv.rcBefore["sprite1"] + 1

\* An asAtom variable holding an integer refused a Sprite.
C8_Refused ==
    /\ IsForward /\ conv.ty.k = "asAtom" /\ conv.prior = IntAtom(42)
    /\ conv.obj = ObjAtom("sprite1") /\ conv.err = "checkTypeFailed"

\* C9: a successful forward coercion of an object reference into a Ref<T>,
\* NullableRef<T> or asAtom slot adds exactly one reference to that object,
\* changes no other count and returns that very object.
C9_OneReferencePerHandle ==
    (IsForward /\ conv.ty.k \in {"Ref", "NullableRef", "asAtom"}
        /\ isObject(conv.obj) /\ conv.err = "none")
    => /\ OneMoreOn(conv.obj.obj)
       /\ \A o \in Objects \ {conv.obj.obj} : conv.rcAfter[o] = conv.rcBefore[o]
       /\ conv.out = IF conv.ty.k = "asAtom" THEN conv.obj ELSE Handle(conv.obj.obj)
       /\ conv.v = conv.out

\* An empty NullableRef<DisplayObject> variable took a Sprite.
C9_Witness ==
    /\ IsForward /\ conv.ty = Ty("NullableRef", "DisplayObject")
    /\ conv.prior = NullRef /\ conv.obj = ObjAtom("sprite1")
    /\ conv.v = Handle("sprite1")
    /\ conv.rcAfter["sprite1"] = InitRefs + 1

\* The native value holds no object: the empty handle, or an asAtom that is
\* invalid or null.
EmptyHandle(v) == v = NullRef \/ v = invalidAtom \/ v = nullAtom

\* The object a non-empty reference value holds.
Held(v) == v.obj

\* C10: reverse coercion of a non-empty reference value adds exactly one
\* reference to its object and yields a dynamic value referring to that
\* object; reverse coercion of an empty one yields null and changes no count.
C10_Reverse ==
    (IsReverse /\ conv.ty.k \in {"Ref", "NullableRef", "asAtom"})
    => /\ (conv.prior.tag \in {"ref", "obj"}
              => /\ conv.out = ObjAtom(Held(conv.prior))
                 /\ OneMoreOn(Held(conv.prior)))
       /\ (EmptyHandle(conv.prior) => conv.out = nullAtom /\ SameCounts)
       /\ conv.v = conv.prior

\* A NullableRef<DisplayObject> that took a Sprite was handed back: the Sprite
\* has its two added references.
C10_Witness ==
    /\ IsReverse /\ conv.n = 2 /\ conv.ty = Ty("NullableRef", "DisplayObject")
    /\ conv.prior = Handle("sprite1") /\ conv.out = ObjAtom("sprite1")
    /\ rc["sprite1"] = conv.rcBefore["sprite1"] + 1

\* An empty NullableRef was handed back as null.
C10_Empty ==
    /\ IsReverse /\ conv.prior = NullRef /\ conv.out = nullAtom /\ rc = conv.rcBefore


----------------------------------------------------------------------------
\* Property of the round trip, checked under SpecOwn.

LiveOwners == owners.interp + owners.native + owners.dynamic

\* C11: once an object has been taken into a native handle and handed back
\* as a dynamic value, the handle and the dynamic value own it independently:
\* whatever the order of the releases, its count is the number of owners
\* still live, so it is never zero while the handle, a dynamic value or the
\* interpreter's reference is live.
C11_IndependentOwners ==
    owners.obj # "none"
    => /\ rc[owners.obj] = LiveOwners
       /\ (LiveOwners > 0 => rc[owners.obj] > 0)
       /\ (owners.native = 1 => conv.v = Handle(owners.obj))

\* The handle and the interpreter have let go; the handed-back value alone
\* keeps the object.
C11_Witness ==
    /\ owners.obj = "sprite1" /\ owners.native = 0 /\ owners.interp = 0
    /\ owners.dynamic = 1 /\ rc["sprite1"] = 1
    /\ conv.ty = Ty("Ref", "DisplayObject")

----------------------------------------------------------------------------
\* Properties of the destructor, checked under Spec.

----------------------------------------------------------------------------
\* Properties of the cursor and the remaining count, checked under Spec.

\* The remaining count and the cursor in one state.
C13_State ==
    /\ argslen \in 0..Len(args)
    /\ cursor + argslen = Len(args)
    /\ pc = "unpacking" /\ slots = << >> => argslen = Len(args)

\* The remaining count and the reads of one step.
C13_Step ==
    /\ argslen' <= argslen
    /\ argslen' >= argslen - 1
    /\ argslen' # argslen => Applies
    /\ Applies /\ NewSlot.arg # NoArg
       => cursor < Len(args) /\ NewSlot.arg = args[cursor + 1]
    /\ pc' = "destroyed" => err' = err

\* C13: the remaining count starts at the number of arguments supplied,
\* never increases, changes by at most one per slot application and only
\* there, stays between zero and that number, and with the cursor always
\* adds up to it; only the argument under the cursor is read, never one
\* past the end; arguments left over at the end of the chain raise no error.
C13_RemainingCount == [] C13_State /\ [][C13_Step]_vars

\* The chain ended with an argument left over and no error.
C13_Witness ==
    /\ pc = "destroyed" /\ err = "none" /\ argslen > 0 /\ cursor > 0

----------------------------------------------------------------------------
\* Properties of whole chains, checked under Spec.

\* Every slot applied so far is a required one.
AllRequired == \A i \in 1..Len(slots) : slots[i].required

\* The smaller of two numbers.
Min(a, b) == IF a < b THEN a ELSE b

\* C14: in a chain of required slots whose coercions all succeed, called
\* with fewer arguments than slots, the wrong-argument-count failure comes
\* exactly at the slot whose 0-based index is the number of arguments: no
\* earlier slot fails, that slot does, and every slot before it holds the
\* coerced value of the argument at its own position.
C14_ShortCall ==
    AllRequired /\ err # "checkTypeFailed"
    => /\ Len(slots) <= Len(args) => err = "none"
       /\ Len(slots) > Len(args)
          => /\ err = "wrongArgumentCount"
             /\ Len(slots) = Len(args) + 1
             /\ Top.arg = NoArg /\ Top.val = Top.prior
       /\ \A i \in 1..Min(Len(slots), Len(args)) : CoercedFrom(i)

\* (A)(B) called with the one argument 42: B failed, A holds 42.
C14_Witness ==
    /\ Len(args) = 1 /\ args[1] = IntAtom(42)
    /\ Len(slots) = 2 /\ AllRequired
    /\ err = "wrongArgumentCount"
    /\ slots[1].ty = Ty("int32", "-") /\ slots[1].val = Int32(42)
    /\ slots[2].val = slots[2].prior

\* What applying a slot does while an argument remains, written without the
\* slot's kind and without its default: the step is fixed by the variable's
\* type and content, the argument under the cursor and the counts alone.
C15_Step ==
    Applies /\ argslen > 0
    => LET a == args[cursor + 1]
           r == toConcrete(NewSlot.ty, a, NewSlot.prior, rc)
       IN /\ NewSlot.arg = a
          /\ IF r.err = "none"
             THEN /\ NewSlot.val = r.val
                  /\ cursor' = cursor + 1
                  /\ argslen' = argslen - 1
                  /\ rc' = MoveAssign(NewSlot.ty, NewSlot.prior, r.rc)
                  /\ err' = "none" /\ pc' = "unpacking"
             ELSE /\ err' = "checkTypeFailed" /\ pc' = "thrown"
                  /\ NewSlot.val = NewSlot.prior
                  /\ cursor' = cursor /\ argslen' = argslen
                  /\ rc' = r.rc
          /\ SubSeq(slots', 1, Len(slots)) = slots

\* C15: a defaulted slot applied while at least one argument remains does
\* exactly what a required slot does in the same state: on success the same
\* variable content, cursor, remaining count and reference counts, on a
\* refused reference the same type-check failure with the variable left as
\* it was; the default is never used as a fallback.
C15_DefaultedAsRequired == [][C15_Step]_vars

\* A defaulted slot refused its argument: the variable kept its content,
\* which is not the default.
C15_Witness ==
    /\ slots # << >> /\ ~Top.required /\ Top.arg # NoArg
    /\ err = "checkTypeFailed" /\ Top.val = Top.prior /\ Top.val # Top.def

\* A defaulted slot took its argument: the variable holds the coerced value,
\* which is not the default.
C15_Taken ==
    /\ slots # << >> /\ ~Top.required /\ Top.arg # NoArg
    /\ err = "none" /\ Top.val # Top.def /\ Top.val # Top.prior

----------------------------------------------------------------------------
\* One native function: ARG_UNPACK_ATOM(i)(b, true)(o, NullRef) with
\* int32_t i, bool b and _NR<DisplayObject> o, called with every short array of
\* the values below.

ScenarioChain ==
    << [required |-> TRUE,  d |-> Decl(Ty("int32", "-"), Int32(0), NoValue)],
       [required |-> FALSE, d |-> Decl(Ty("bool", "-"), Bool(FALSE), Bool(TRUE))],
       [required |-> FALSE,
        d |-> Decl(Ty("NullableRef", "DisplayObject"), NullRef, NullRef)] >>

ScenarioValues == {IntAtom(42), BoolAtom(FALSE), ObjAtom("sprite1"), IntAtom(99)}

InitScenario ==
    /\ args \in UNION {[1..n -> ScenarioValues] : n \in 0..ScenarioLen}
    /\ cursor = 0
    /\ argslen = Len(args)
    /\ ndebug \in BOOLEAN
    /\ moreAllowed \in BOOLEAN
    /\ limit = Len(ScenarioChain)
    /\ owners = NoOwners
    /\ slots = << >>
    /\ err = "none"
    /\ pc = "unpacking"
    /\ diag = 0
    /\ rc = [o \in Objects |-> InitRefs]
    /\ conv = NoConv

\* The next operator() of the chain.
ScenarioSlot ==
    /\ Len(slots) < Len(ScenarioChain)
    /\ LET e == ScenarioChain[Len(slots) + 1]
       IN IF e.required THEN RequiredSlot(e.d) ELSE DefaultedSlot(e.d)

\* The temporary dies at the end of the full expression or in the unwinding.
ScenarioDestroy ==
    /\ Len(slots) = Len(ScenarioChain) \/ pc = "thrown"
    /\ Destroy

NextScenario == ScenarioSlot \/ ScenarioDestroy

SpecScenario == InitScenario /\ [][NextScenario]_vars

----------------------------------------------------------------------------
\* Property of the three-slot call, checked under SpecScenario.

\* The contents of the variables after the chain.
Results == [i \in 1..Len(slots) |-> slots[i].val]

Done == pc = "destroyed" /\ ~moreAllowed

\* The three calls, with the number of diagnostics the last one emits.
Scenario(extra) ==
    /\ Done /\ args = <<IntAtom(42)>>
       => /\ Results = <<Int32(42), Bool(TRUE), NullRef>>
          /\ err = "none" /\ diag = 0
          /\ rc = [o \in Objects |-> InitRefs]
    /\ Done /\ args = << >>
       => /\ err = "wrongArgumentCount" /\ Len(slots) = 1
          /\ Results = <<Int32(0)>> /\ diag = 0
    /\ Done /\ args = <<IntAtom(42), BoolAtom(FALSE), ObjAtom("sprite1"), IntAtom(99)>>
       => /\ Results = <<Int32(42), Bool(FALSE), Handle("sprite1")>>
          /\ err = "none" /\ diag = extra
          /\ rc = [o \in Objects |-> IF o = "sprite1" THEN InitRefs + 1 ELSE InitRefs]

----------------------------------------------------------------------------
\* Properties of failing chains, checked under Spec.

\* Slot i was applied and returned (it is not the slot that threw).
Returned(i) == i < Len(slots) \/ err = "none"

\* References to object o that slot i's variable took: a handle now holding
\* o, or an asAtom variable that consumed the object o.
Gain(i, o) ==
    IF /\ Returned(i)
       /\ \/ IsHandleType(slots[i].ty) /\ slots[i].val = Handle(o)
          \/ slots[i].ty.k = "asAtom" /\ slots[i].arg = ObjAtom(o)
    THEN 1 ELSE 0

\* References to object o that slot i's variable gave up: the handle it held
\* before the assignment.
Loss(i, o) ==
    IF Returned(i) /\ IsHandleType(slots[i].ty) /\ slots[i].prior = Handle(o)
    THEN 1 ELSE 0

RECURSIVE NetRefs(_, _)
NetRefs(o, k) == IF k = 0 THEN 0 ELSE NetRefs(o, k - 1) + Gain(k, o) - Loss(k, o)

\* C17: when a chain fails at some slot, every reference taken for a handle
\* stored by an earlier slot is still counted (nothing is rolled back, at
\* the throw or at the destruction), and the argument of the failing slot
\* has received no increment: each object's count is its initial count plus
\* what the slots that returned took and minus what they gave up.
C17_NoRollback ==
    \A o \in Objects : rc[o] = InitRefs + NetRefs(o, Len(slots))

\* The first slot stored a handle to sprite1, the second refused csm1:
\* sprite1 is still counted once more, csm1 not at all.
C17_Witness ==
    /\ Len(slots) = 2 /\ err = "checkTypeFailed" /\ pc = "destroyed"
    /\ slots[1].val = Handle("sprite1") /\ slots[1].prior = NullRef
    /\ slots[2].arg = ObjAtom("csm1") /\ slots[2].ty = Ty("Ref", "DisplayObject")
    /\ rc["sprite1"] = InitRefs + 1 /\ rc["csm1"] = InitRefs

----------------------------------------------------------------------------
\* The scalar specializations alone: one scalar variable, any dynamic value
\* coerced into it, MaxOps times in a row.

ScalarMenu ==
    { <<Ty("bool", "-"), Bool(FALSE)>>,
      <<Ty("bool", "-"), Bool(TRUE)>>,
      <<Ty("int32", "-"), Int32(0)>>,
      <<Ty("int32", "-"), Int32(7)>>,
      <<Ty("uint32", "-"), UInt32([carry |-> FALSE, num |-> 0])>>,
      <<Ty("uint32", "-"), UInt32([carry |-> TRUE, num |-> -1])>>,
      <<Ty("int64", "-"), Int64(0)>>,
      <<Ty("int64", "-"), Int64(7)>>,
      <<Ty("number", "-"), Number([nan |-> FALSE, num |-> 0])>>,
      <<Ty("number", "-"), Number([nan |-> TRUE, num |-> 0])>>,
      <<Ty("tiny_string", "-"), TinyString("")>>,
      <<Ty("tiny_string", "-"), TinyString("true")>>,
      <<Ty("RGB", "-"), RGB([carry |-> FALSE, num |-> 0])>>,
      <<Ty("RGB", "-"), RGB([carry |-> FALSE, num |-> 255])>> }

ScalarValues ==
    { undefinedAtom, nullAtom, IntAtom(42), IntAtom(0), IntAtom(-1),
      BoolAtom(TRUE), BoolAtom(FALSE), StrAtom("true"), StrAtom(""),
      StrAtom("42"), ObjAtom("sprite1") }

InitScalar ==
    /\ args = << >>
    /\ cursor = 0
    /\ argslen = 0
    /\ moreAllowed = FALSE
    /\ ndebug = FALSE
    /\ limit = 0
    /\ owners = NoOwners
    /\ slots = << >>
    /\ err = "none"
    /\ pc = "destroyed"
    /\ diag = 0
    /\ rc = [o \in Objects |-> InitRefs]
    /\ \E m \in ScalarMenu : conv = [NoConv EXCEPT !.ty = m[1], !.v = m[2]]

NextScalar == \E obj \in ScalarValues : Forward(obj)

SpecScalar == InitScalar /\ [][NextScalar]_vars

----------------------------------------------------------------------------
\* Property of the scalar specializations, checked under SpecScalar.

\* The value's own conversion primitive for each scalar type.
Primitive(ty, obj) ==
    CASE ty.k = "bool" -> Bool(Boolean_concrete(obj))
      [] ty.k = "int32" -> Int32(toInt(obj))
      [] ty.k = "uint32" -> UInt32(toUInt(obj))
      [] ty.k = "int64" -> Int64(toInt64(obj))
      [] ty.k = "number" -> Number(toNumber(obj))
      [] ty.k = "tiny_string" -> TinyString(toString(obj))
      [] ty.k = "RGB" -> RGB(toUInt(obj))

\* C18: for every scalar slot type (boolean, int32, uint32, int64, number,
\* string, colour triple) and every dynamic value, the forward coercion
\* returns exactly the result of the value's own conversion primitive, never
\* fails with type-check-failed, does not depend on what the variable held
\* and touches no reference count; the string "true" coerced into a boolean
\* gives true.
C18_ScalarCoercion ==
    IsForward
    => /\ conv.err = "none"
       /\ conv.out = Primitive(conv.ty, conv.obj)
       /\ conv.v = conv.out
       /\ conv.rcAfter = conv.rcBefore /\ rc = conv.rcBefore
       /\ (conv.ty.k = "bool" /\ conv.obj = StrAtom("true") => conv.out = Bool(TRUE))

\* The string "true" went into a boolean variable that held false.
C18_Witness ==
    /\ IsForward /\ conv.ty = Ty("bool", "-") /\ conv.obj = StrAtom("true")
    /\ conv.prior = Bool(FALSE) /\ conv.out = Bool(TRUE)

\* The two failures and the diagnostic; inDebug tells whether the build at
\* hand emits it.
FailureAndDiagnostic(inDebug) ==
    /\ err = "checkTypeFailed"
       => /\ argslen > 0
          /\ cursor = Len(slots) - 1
          /\ Top.arg = args[cursor + 1]
          /\ pc = "destroyed"
             => diag = (IF inDebug /\ ~moreAllowed THEN 1 ELSE 0)
    /\ err = "wrongArgumentCount" => argslen = 0 /\ diag = 0

TookDefault(i) == ~slots[i].required /\ slots[i].arg = NoArg

\* C20: once a defaulted slot has taken its default the remaining count is
\* zero and stays zero: every later defaulted slot takes its default too,
\* every later required slot fails with wrong-argument-count (and ends the
\* chain), and no later slot consumes an argument.
C20_DefaultsAreFinal ==
    \A i \in 1..Len(slots) :
        TookDefault(i)
        => /\ argslen = 0 /\ cursor = Len(args)
           /\ \A j \in (i + 1)..Len(slots) :
                  /\ slots[j].arg = NoArg
                  /\ ~slots[j].required => slots[j].val = slots[j].def
                  /\ slots[j].required
                     => /\ j = Len(slots) /\ err = "wrongArgumentCount"
                        /\ slots[j].val = slots[j].prior

\* A defaulted slot took its default and the required slot after it failed.
C20_Witness ==
    /\ Len(slots) = 2 /\ TookDefault(1) /\ slots[2].required
    /\ err = "wrongArgumentCount" /\ argslen = 0

\* Two defaulted slots in a row took their defaults.
C20_Twice ==
    /\ Len(slots) = 2 /\ TookDefault(1) /\ TookDefault(2) /\ err = "none"

====
